---------------------------- MODULE Spec2Model ----------------------------
(***************************************************************************)
(* Model of cli/kodeventure-cli.py, the administrative command-line        *)
(* client of the Kodeventure game server.  One run of the script is one    *)
(* behaviour: the argument parser, the dispatch through the cmds table,    *)
(* and the selected action function, which calls the HTTP client once,     *)
(* reads the response and prints (and, for cert, writes three files).      *)
(*                                                                         *)
(* Texts are TLA+ strings; each write to standard output or standard error *)
(* is one entry of stdout or stderr (a print call is the arguments' str()  *)
(* joined by one space, and a newline).  A decoded JSON value is a record  *)
(* [t, v] tagged with its Python type.  The characters of the texts are    *)
(* printable ASCII, tab, line feed, carriage return and form feed.         *)
(***************************************************************************)
EXTENDS Integers, Sequences, FiniteSets, TLC

(***************************************************************************)
(* Bounds of the model.                                                    *)
(***************************************************************************)
\* longest command line (number of arguments after the script name)
MaxArgs == 2
\* longest player list the server returns
MaxPlayers == 2
\* how many runs of the random generator (4 draws each) are enumerated
DrawBound == 3
\* how many redirects in a row the server answers one call with
MaxRedirects == 1

(***************************************************************************)
(* Module constants of the script.                                         *)
(***************************************************************************)
SERVER == "https://localhost:3001"

TOKEN == "dungeon-master-key"

HEADERS == ("Authorization" :> TOKEN) @@ ("Content-Type" :> "application/json")

\* a call of requests.post / requests.get without the headers keyword
NoHeaders == [h \in {} |-> ""]

\* string.ascii_letters
ascii_letters_digits == "0123456789abcdefghijklmnopqrstuvwxyzABCDEFGHIJKLMNOPQRSTUVWXYZ"

ascii_letters == "abcdefghijklmnopqrstuvwxyzABCDEFGHIJKLMNOPQRSTUVWXYZ"

\* range(4) of the two token comprehensions
TokenLen == 4

(***************************************************************************)
(* Decoded JSON values, as response.json() returns them.                   *)
(***************************************************************************)
JNull == [t |-> "NoneType", v |-> <<>>]

JBool(b) == [t |-> "bool", v |-> b]

JNum(n) == [t |-> "int", v |-> n]

JStr(s) == [t |-> "str", v |-> s]

\* a Python list: v is the sequence of its elements
JList(s) == [t |-> "list", v |-> s]

\* a Python dict: v is the sequence of <<key, value>> pairs in insertion order
JObj(kv) == [t |-> "dict", v |-> kv]

Keys(d) == {d.v[i][1] : i \in 1..Len(d.v)}

Get(d, k) == LET i == CHOOSE j \in 1..Len(d.v) : d.v[j][1] = k IN d.v[i][2]

\* s in text, for two Python strings
Contains(text, s) ==
    \E i \in 1..(Len(text) - Len(s) + 1) : SubSeq(text, i, i + Len(s) - 1) = s

RECURSIVE Join(_, _)
\* sep.join(parts)
Join(parts, sep) ==
    IF Len(parts) = 0 THEN ""
    ELSE IF Len(parts) = 1 THEN parts[1]
    ELSE parts[1] \o sep \o Join(Tail(parts), sep)

\* one character of a string between the quotes of its repr()
repr_char(c, quote) ==
    CASE c = "\\" -> "\\\\"
      [] c = "\n" -> "\\n"
      [] c = "\r" -> "\\r"
      [] c = "\t" -> "\\t"
      [] c = "\f" -> "\\x0c"
      [] c = quote -> "\\" \o c
      [] OTHER -> c

\* repr() of a string: in single quotes, or in double quotes when it holds a
\* single quote and no double quote; backslash, the quote and control characters
\* are escaped
repr_str(s) ==
    LET quote == IF Contains(s, "'") /\ ~Contains(s, "\"") THEN "\"" ELSE "'"
    IN  quote \o Join([i \in 1..Len(s) |-> repr_char(SubSeq(s, i, i), quote)], "") \o quote

RECURSIVE repr(_)
\* repr() of a decoded JSON value
repr(x) ==
    CASE x.t = "NoneType" -> "None"
      [] x.t = "bool" -> IF x.v THEN "True" ELSE "False"
      [] x.t = "int" -> ToString(x.v)
      [] x.t = "str" -> repr_str(x.v)
      [] x.t = "list" -> "[" \o Join([i \in 1..Len(x.v) |-> repr(x.v[i])], ", ") \o "]"
      [] x.t = "dict" ->
           "{" \o Join([i \in 1..Len(x.v) |->
                          repr_str(x.v[i][1]) \o ": " \o repr(x.v[i][2])], ", ") \o "}"

\* str() of a decoded JSON value, which is what print() writes for it
str(x) == IF x.t = "str" THEN x.v ELSE repr(x)

\* one character of a string between the quotes of its JSON text
dumps_char(c) ==
    CASE c = "\\" -> "\\\\"
      [] c = "\"" -> "\\\""
      [] c = "\n" -> "\\n"
      [] c = "\r" -> "\\r"
      [] c = "\t" -> "\\t"
      [] c = "\f" -> "\\f"
      [] OTHER -> c

\* the JSON text of a string: in double quotes, with backslash, the double quote
\* and control characters escaped
dumps_str(s) ==
    "\"" \o Join([i \in 1..Len(s) |-> dumps_char(SubSeq(s, i, i))], "") \o "\""

RECURSIVE dumps(_)
\* the JSON text of a value as the server sends it (compact separators), which
\* response.json() decodes back to the value
dumps(x) ==
    CASE x.t = "NoneType" -> "null"
      [] x.t = "bool" -> IF x.v THEN "true" ELSE "false"
      [] x.t = "int" -> ToString(x.v)
      [] x.t = "str" -> dumps_str(x.v)
      [] x.t = "list" -> "[" \o Join([i \in 1..Len(x.v) |-> dumps(x.v[i])], ",") \o "]"
      [] x.t = "dict" ->
           "{" \o Join([i \in 1..Len(x.v) |->
                          dumps_str(x.v[i][1]) \o ":" \o dumps(x.v[i][2])], ",") \o "}"


(***************************************************************************)
(* The environment: command lines, the operator's input, the server's      *)
(* answers and the files found beside the client.                          *)
(***************************************************************************)
\* the keys of the cmds table, in the order the script lists them
ChoiceList == <<"adduser", "listusers", "cert", "start", "pause", "unpause", "stop">>

Choices == {ChoiceList[i] : i \in 1..Len(ChoiceList)}

\* words a command line is made of: the commands, two words the script does not
\* know, the help flag (short, long, abbreviated and doubled), the end-of-options
\* mark, an option the parser does not know, a negative number, a word with a
\* space after a '-', and the help flag with a value attached (short and long)
Words ==
    Choices \cup {"add-user", "bogus", "-h", "--help", "--he", "-hh", "--", "-x",
                  "-1", "-x y", "-hx", "--he=1"}

RECURSIVE SeqsUpTo(_, _)
SeqsUpTo(S, n) ==
    IF n = 0 THEN {<<>>}
    ELSE LET shorter == SeqsUpTo(S, n - 1)
         IN  shorter \cup {Append(s, x) : s \in {q \in shorter : Len(q) = n - 1}, x \in S}

\* sys.argv[1:]
CommandLines == SeqsUpTo(Words, MaxArgs)

\* the lines the operator may type at the 'Player name: ' prompt
Names == {"Ada", ""}

\* what input() finds on standard input: a line, or the end of the input
Typed == {<<name>> : name \in Names} \cup {<<>>}

\* the index random.choice picks at the i-th draw of the k-th enumerated run of
\* the generator, in a sequence of n items: the first run picks the first item
\* every time, the second the last item, the later ones items in between
Draw(k, i, n) == ((((k - 1) * (n - 1)) + ((k - 1) * (k - 2) * 13 * i)) % n) + 1

\* the enumerated runs of TokenLen draws
DrawRuns(n) == {[i \in 1..TokenLen |-> Draw(k, i, n)] : k \in 1..DrawBound}

\* random.choice(seq) when the generator picks index i
choice(seq, i) == SubSeq(seq, i, i)

\* ''.join(random.choice(string.ascii_letters) for i in range(4)), for one run of draws
token(draws) == Join([i \in 1..TokenLen |-> choice(ascii_letters, draws[i])], "")

\* a response whose body is the JSON text of value
JsonResponse(status, value) ==
    [status_code |-> status, valid |-> TRUE, text |-> dumps(value), value |-> value]

\* a response whose body is not JSON
TextResponse(status, text) ==
    [status_code |-> status, valid |-> FALSE, text |-> text, value |-> JNull]

\* the value of response before the request returns
NoResponse == TextResponse(0, "")

Ada == JObj(<< <<"name", JStr("Ada")>>, <<"score", JNum(5)>> >>)

\* elements of the player collection the server may return
Players == {Ada, JStr("Bob"), JNull, JBool(TRUE), JNum(7),
            JObj(<< <<"n", JStr("O'Neil")>> >>),
            JList(<<JStr("a\nb")>>),
            JObj(<< <<"k", JStr("a\\b")>> >>),
            JList(<<JStr("it's \"ok\"")>>)}

PlayerLists == {JList(s) : s \in SeqsUpTo(Players, MaxPlayers)}

\* 200 bodies that carry an application-level error
ErrorBodies == {JObj(<< <<"errors", JStr("name taken")>> >>),
                JObj(<< <<"errors", JList(<<JStr("name taken")>>)>>, <<"name", JStr("Ada")>> >>)}

\* bodies that are JSON but neither an object with errors nor a player list
OtherBodies == {JObj(<<>>), JStr("errors occurred"), JStr("ok"),
                JList(<<JStr("errors")>>), JNull, JNum(5)}

\* the fields of a certificate bundle, in the order cert() reads them
BundleFields == <<"private", "public", "cert">>

\* the key material of a bundle, one text per field
BundleTexts == <<"KEY", "PUB", "CRT">>

\* the bundle holding the fields numbered in present; the one in broken is null
Bundle(present, broken) ==
    JObj(SelectSeq([i \in 1..3 |->
                      <<BundleFields[i],
                        IF i = broken THEN JNull ELSE JStr(BundleTexts[i])>>],
                   LAMBDA kv : \E i \in present : BundleFields[i] = kv[1]))

FullBundle == Bundle(1..3, 0)

\* complete bundles, bundles lacking fields, and bundles with a field that is no text
BundleBodies == {Bundle(present, 0) : present \in SUBSET (1..3)}
                    \cup {Bundle(1..3, broken) : broken \in 1..3}

\* what the server may answer with status 200 on a path
OkBodies(path) ==
    CASE path = "/user" -> ErrorBodies \cup OtherBodies \cup {Ada}
      [] path = "/users" -> PlayerLists \cup ErrorBodies \cup OtherBodies
      [] path = "/cert" -> BundleBodies \cup OtherBodies
      [] OTHER -> {JObj(<<>>), JStr("ok"), FullBundle}

\* what the server may answer with another status
FailBodies == {Ada, FullBundle, JList(<<Ada>>), JObj(<< <<"errors", JStr("denied")>> >>),
               JList(<<JStr("a\"b")>>)}

\* the other statuses: a 3xx that names no Location, a refusal, a failure
FailStatuses == {302, 401, 500}

\* every response the model lets the server end a call with, for a request on path
ServerResponses(path) ==
    {JsonResponse(200, b) : b \in OkBodies(path)}
        \cup {TextResponse(200, "server busy")}
        \cup {JsonResponse(s, b) : s \in FailStatuses, b \in FailBodies}
        \cup {TextResponse(s, "server busy") : s \in FailStatuses}

\* the statuses of the redirects the server may answer with
RedirectStatuses == {301, 302, 307}

\* a response that redirects the client: a 3xx status and a Location header
Redirect(status) ==
    [status_code |-> status, valid |-> FALSE, text |-> "moved", value |-> JNull,
     location |-> "/elsewhere"]

Redirects == {Redirect(status) : status \in RedirectStatuses}

\* the exceptions of requests for an exchange that fails: no connection, or a
\* response cut short
TransportErrors == {"ConnectionError", "ChunkedEncodingError"}

\* a file: absent, or present with a text content
NoFile == [exists |-> FALSE, content |-> ""]

File(text) == [exists |-> TRUE, content |-> text]

\* os.path.join(os.path.dirname(__file__), '..', filename), relative to the client
parent_dir(filename) == "../" \o filename

Paths == {parent_dir("server.key"), parent_dir("server.pub"), parent_dir("server.crt")}

\* the directory before the run: nothing there, or three files of an earlier run
Directories == {[p \in Paths |-> NoFile], [p \in Paths |-> File("OLD")]}

\* the texts a file can be left holding when writing text into it fails
Partial(text) == {SubSeq(text, 1, n) : n \in 0..Len(text)}

(***************************************************************************)
(* Python operations on a decoded value.  Each yields [exc, value]: exc is *)
(* the exception raised ("" when none).                                    *)
(***************************************************************************)
Ok(value) == [exc |-> "", value |-> value]

Raises(exc) == [exc |-> exc, value |-> JNull]

\* response.json()
json(r) == IF r.valid THEN Ok(r.value) ELSE Raises("JSONDecodeError")

\* key in data, for a string key: a dict looks among its keys, a list among its
\* elements, a string for a substring; nothing else is a container
in(key, data) ==
    CASE data.t = "dict" -> Ok(JBool(key \in Keys(data)))
      [] data.t = "list" ->
           Ok(JBool(\E i \in 1..Len(data.v) : data.v[i].t = "str" /\ data.v[i].v = key))
      [] data.t = "str" -> Ok(JBool(Contains(data.v, key)))
      [] OTHER -> Raises("TypeError")

\* data[key], for a string key
getitem(data, key) ==
    IF data.t = "dict"
    THEN IF key \in Keys(data) THEN Ok(Get(data, key)) ELSE Raises("KeyError")
    ELSE Raises("TypeError")

\* the items of: for player in data
iter(data) ==
    CASE data.t = "list" -> Ok(data)
      [] data.t = "dict" -> Ok(JList([i \in 1..Len(data.v) |-> JStr(data.v[i][1])]))
      [] data.t = "str" -> Ok(JList([i \in 1..Len(data.v) |-> JStr(SubSeq(data.v, i, i))]))
      [] OTHER -> Raises("TypeError")

\* print(text): the text and a newline
print(text) == text \o "\n"

(***************************************************************************)
(* State of one run of the script.                                         *)
(***************************************************************************)
VARIABLES
    pc,         \* where the run is: "parse", "dispatch", a step of a function, "exit"
    argv,       \* sys.argv[1:]
    cmd,        \* args.cmd
    old_files,  \* the directory as the run found it
    files,      \* the directory beside the client: path -> file
    player_token,   \* adduser's player_token
    server_token,   \* adduser's server_token
    payload,    \* adduser's payload
    response,   \* the function's response
    history,    \* response.history: the redirects the HTTP client followed
    bundle,     \* cert's private_key, public_key, certificate
    requests,   \* the requests sent, in order
    stdout,     \* the texts written to standard output, in order
    stderr,     \* the texts written to standard error, in order
    exitcode    \* the process's exit status, -1 while it runs

vars == <<pc, argv, cmd, old_files, files, player_token, server_token, payload,
          response, history, bundle, requests, stdout, stderr, exitcode>>

NoPayload == [token |-> "", server_token |-> "", name |-> "",
              score |-> 0, titles |-> <<>>, loot |-> <<>>]

Init ==
    /\ pc = "parse"
    /\ argv \in CommandLines
    /\ cmd = ""
    /\ old_files \in Directories
    /\ files = old_files
    /\ player_token = ""
    /\ server_token = ""
    /\ payload = NoPayload
    /\ response = NoResponse
    /\ history = <<>>
    /\ bundle = <<>>
    /\ requests = <<>>
    /\ stdout = <<>>
    /\ stderr = <<>>
    /\ exitcode = -1

\* what the interpreter prints for an exception nobody catches
Traceback(exc) == "Traceback (most recent call last): " \o exc

\* an exception nobody catches: the interpreter prints the traceback and exits 1
Uncaught(exc) ==
    /\ stderr' = Append(stderr, Traceback(exc))
    /\ exitcode' = 1
    /\ pc' = "exit"

\* the function returns to the last line of the script, which ends it
Return ==
    /\ exitcode' = 0
    /\ pc' = "exit"
    /\ UNCHANGED stderr

(***************************************************************************)
(* __main__: the argument parser and the dispatch.                         *)
(***************************************************************************)
\* the functions of the cmds table: the step each starts at
cmds == [c \in Choices |-> c]

\* the usage lines of the parser, as wrapped for 80 columns
usage ==
    "usage: kodeventure-cli.py [-h]\n                          {"
        \o Join(ChoiceList, ",") \o "}\n"

\* parser.format_help()
format_help ==
    usage \o "\nKodeventure Server CLI\n\npositional arguments:\n  {"
          \o Join(ChoiceList, ",") \o "}\n                        Which command to run\n"
          \o "\noptions:\n  -h, --help            show this help message and exit\n"

\* the parser returns the namespace with cmd
Namespace(word) == [exit |-> "", message |-> "", cmd |-> word]

\* the parser prints the help and exits
HelpExit == [exit |-> "help", message |-> "", cmd |-> ""]

\* parser.error(message)
ErrorExit(message) == [exit |-> "error", message |-> message, cmd |-> ""]

\* the decimal digits the parser's pattern for a negative number accepts
Digits == {"0", "1", "2", "3", "4", "5", "6", "7", "8", "9"}

\* whether a text is one digit or more
is_digits(text) ==
    /\ Len(text) > 0
    /\ \A k \in 1..Len(text) : SubSeq(text, k, k) \in Digits

\* the parser's pattern for a negative number, '^-\d+$|^-\d*\.\d+$': a '-',
\* then digits, or digits (none allowed) with a '.' and digits after them; the
\* '$' of the pattern also matches before a line feed that ends the word
is_negative_number(word) ==
    LET end == IF Len(word) > 1 /\ SubSeq(word, Len(word), Len(word)) = "\n"
               THEN Len(word) - 1
               ELSE Len(word)
        body == SubSeq(word, 2, end)
    IN  /\ Len(word) > 0
        /\ SubSeq(word, 1, 1) = "-"
        /\ \/ is_digits(body)
           \/ \E k \in 1..Len(body) :
                  /\ SubSeq(body, k, k) = "."
                  /\ k = 1 \/ is_digits(SubSeq(body, 1, k - 1))
                  /\ is_digits(SubSeq(body, k + 1, Len(body)))

\* what the parser reads in a word that is no option string
Positional == [kind |-> "positional", option |-> "", explicit |-> <<>>]

\* an option string read in a word: the action it selects ("help", or
\* "unknown" when the parser has no such option), the option string of the
\* parser it stands for, and the value attached to it, if any
Optional(kind, option, explicit) ==
    [kind |-> kind, option |-> option, explicit |-> explicit]

\* the place of the first '=' of a word, 0 when it has none
find_equals(word) ==
    IF Contains(word, "=")
    THEN CHOOSE k \in 1..Len(word) :
             /\ SubSeq(word, k, k) = "="
             /\ \A j \in 1..(k - 1) : SubSeq(word, j, j) # "="
    ELSE 0

\* what the parser reads in one word: -h and --help as they stand; -h or
\* --help with a value after '='; a prefix of --help, with or without a value
\* after '='; -h with a value attached to it; and of the other words that start
\* with '-', those that look like a negative number or hold a space, and the
\* lone '-', are positional, the rest options the parser does not know
parse_optional(word) ==
    LET eq == find_equals(word)
        before == SubSeq(word, 1, eq - 1)
        after == SubSeq(word, eq + 1, Len(word))
        prefix == IF eq > 0 THEN before ELSE word
        other == IF is_negative_number(word) \/ Contains(word, " ")
                 THEN Positional
                 ELSE Optional("unknown", word, <<>>)
    IN  IF Len(word) = 0 \/ SubSeq(word, 1, 1) # "-" THEN Positional
        ELSE IF word \in {"-h", "--help"} THEN Optional("help", word, <<>>)
        ELSE IF Len(word) = 1 THEN Positional
        ELSE IF eq > 0 /\ before \in {"-h", "--help"}
        THEN Optional("help", before, <<after>>)
        ELSE IF SubSeq(word, 2, 2) = "-"
        THEN IF Len(prefix) <= Len("--help") /\ prefix = SubSeq("--help", 1, Len(prefix))
             THEN Optional("help", "--help", IF eq > 0 THEN <<after>> ELSE <<>>)
             ELSE other
        ELSE IF SubSeq(word, 1, 2) = "-h"
        THEN Optional("help", "-h", <<SubSeq(word, 3, Len(word))>>)
        ELSE other

RECURSIVE ignored_argument(_, _)
\* the value attached to the help option that the parser rejects, none when it
\* takes the option: the help action takes no value, so a value after --help is
\* rejected, and one after -h is read as further one-letter options, of which
\* the parser has -h only
ignored_argument(option, explicit) ==
    IF explicit = <<>> THEN <<>>
    ELSE IF option = "-h" /\ explicit[1] # "" /\ SubSeq(explicit[1], 1, 1) = "h"
    THEN ignored_argument("-h", IF Len(explicit[1]) = 1
                                THEN <<>>
                                ELSE <<SubSeq(explicit[1], 2, Len(explicit[1]))>>)
    ELSE explicit

\* whether the parser takes the i-th argument for an option string: no '--'
\* stands at or before it, and the parser reads an option in it
is_option(args, i) ==
    /\ \A j \in 1..i : args[j] # "--"
    /\ parse_optional(args[i]).kind # "positional"

\* whether the i-th argument is the first '--', which ends the options and is
\* dropped when it stands next to the positional argument
is_mark(args, i) == args[i] = "--" /\ \A j \in 1..(i - 1) : args[j] # "--"

\* whether the parser runs the help action on a word: it reads the help option
\* in it and rejects no value attached to it
is_help(word) ==
    /\ parse_optional(word).kind = "help"
    /\ ignored_argument(parse_optional(word).option, parse_optional(word).explicit) = <<>>

RECURSIVE parse_known_args(_, _, _, _, _)
\* the parser's pass over the arguments from the i-th on, left to right; seen
\* holds the value taken for cmd, extras what no argument of the parser took.
\* The help option ends the pass where it stands: with the help, or with an
\* error when a value is attached to it.
parse_known_args(args, i, seen, extras, choices) ==
    IF i > Len(args)
    THEN IF seen = <<>> THEN ErrorExit("the following arguments are required: cmd")
         ELSE IF extras # <<>>
              THEN ErrorExit("unrecognized arguments: " \o Join(extras, " "))
              ELSE Namespace(seen[1])
    ELSE IF is_option(args, i)
    THEN IF is_help(args[i]) THEN HelpExit
         ELSE IF parse_optional(args[i]).kind = "help"
         THEN ErrorExit("argument -h/--help: ignored explicit argument "
                        \o repr_str(ignored_argument(parse_optional(args[i]).option,
                                                     parse_optional(args[i]).explicit)[1]))
         ELSE parse_known_args(args, i + 1, seen, Append(extras, args[i]), choices)
    ELSE IF seen # <<>> \/ (is_mark(args, i) /\ i = Len(args))
    THEN parse_known_args(args, i + 1, seen, Append(extras, args[i]), choices)
    ELSE LET at == IF is_mark(args, i) THEN i + 1 ELSE i
             next == IF at < Len(args) /\ is_mark(args, at + 1) THEN at + 2 ELSE at + 1
         IN  IF args[at] \notin choices
             THEN ErrorExit("argument cmd: invalid choice: " \o repr_str(args[at])
                            \o " (choose from "
                            \o Join([k \in 1..Len(ChoiceList) |-> repr_str(ChoiceList[k])], ", ")
                            \o ")")
             ELSE parse_known_args(args, next, <<args[at]>>, extras, choices)

\* parser.parse_args() without the choices of the cmd argument
parse_args_any(args) == parse_known_args(args, 1, <<>>, <<>>, Words)

\* parser.parse_args(): the help option and one positional argument, cmd, among
\* the keys of cmds
parse_args(args) == parse_known_args(args, 1, <<>>, <<>>, DOMAIN cmds)

\* args = parser.parse_args(): the help goes to standard output and ends the run
\* with status 0; parser.error() prints the usage and the message on standard
\* error and ends the run with status 2
main_parse ==
    /\ pc = "parse"
    /\ LET args == parse_args(argv)
       IN  CASE args.exit = "" ->
                  /\ cmd' = args.cmd
                  /\ pc' = "dispatch"
                  /\ UNCHANGED <<stdout, stderr, exitcode>>
             [] args.exit = "help" ->
                  /\ stdout' = Append(stdout, format_help)
                  /\ exitcode' = 0
                  /\ pc' = "exit"
                  /\ UNCHANGED <<cmd, stderr>>
             [] args.exit = "error" ->
                  /\ stderr' = Append(stderr, usage \o "kodeventure-cli.py: error: "
                                                    \o args.message \o "\n")
                  /\ exitcode' = 2
                  /\ pc' = "exit"
                  /\ UNCHANGED <<cmd, stdout>>
    /\ UNCHANGED <<argv, old_files, files, player_token, server_token, payload, response,
                   history, bundle, requests>>

\* cmds[args.cmd]()
main_dispatch ==
    /\ pc = "dispatch"
    /\ IF cmd \in DOMAIN cmds
       THEN pc' = cmds[cmd] /\ UNCHANGED <<stderr, exitcode>>
       ELSE Uncaught("KeyError")
    /\ UNCHANGED <<argv, cmd, old_files, files, player_token, server_token, payload,
                   response, history, bundle, requests, stdout>>

(***************************************************************************)
(* The request every function starts with.                                 *)
(***************************************************************************)
\* the method of the request that follows a redirect: a 303, a 302, and a 301 of
\* a POST turn it into GET
rebuild_method(method, status) ==
    IF status = 303 /\ method # "HEAD" THEN "GET"
    ELSE IF status = 302 /\ method # "HEAD" THEN "GET"
    ELSE IF status = 301 /\ method = "POST" THEN "GET"
    ELSE method

\* the headers of the request that follows a redirect: unless the status is 307
\* or 308 the body is dropped, and Content-Type with it; Authorization stays,
\* the redirect leading to the same host
rebuild_headers(headers, status) ==
    IF status \in {307, 308} THEN headers
    ELSE [h \in DOMAIN headers \ {"Content-Type"} |-> headers[h]]

RECURSIVE exchange(_, _, _, _, _)
\* the outcomes of one call of the HTTP client that starts with this request,
\* the server redirecting at most this many times: the requests sent, the
\* redirects followed, and the response returned or the exception raised
exchange(method, path, headers, body, redirects) ==
    LET request == [method |-> method, url |-> SERVER \o path,
                    headers |-> headers, json |-> body]
        answered == {[sent |-> <<request>>, history |-> <<>>, response |-> r, exc |-> ""] :
                        r \in ServerResponses(path)}
        failed == {[sent |-> <<request>>, history |-> <<>>, response |-> NoResponse,
                    exc |-> e] : e \in TransportErrors}
        followed(r) ==
            {[x EXCEPT !.sent = <<request>> \o @, !.history = <<r>> \o @] :
                x \in exchange(rebuild_method(method, r.status_code), r.location,
                               rebuild_headers(headers, r.status_code),
                               IF r.status_code \in {307, 308} THEN body ELSE <<>>,
                               redirects - 1)}
    IN  answered \cup failed
            \cup (IF redirects = 0 THEN {} ELSE UNION {followed(r) : r \in Redirects})

\* requests.<method>(f'{SERVER}{path}', headers=headers, json=body, verify=False):
\* the request goes out; the client follows the redirects the server answers
\* with (allow_redirects is left at its default), each by one more request; then
\* the last response comes back, or an exchange fails and requests raises
send(method, path, headers, body, next) ==
    /\ \E x \in exchange(method, path, headers, body, MaxRedirects) :
         /\ requests' = requests \o x.sent
         /\ IF x.exc = ""
            THEN /\ response' = x.response
                 /\ history' = x.history
                 /\ pc' = next
                 /\ UNCHANGED <<stderr, exitcode>>
            ELSE /\ Uncaught(x.exc)
                 /\ UNCHANGED <<response, history>>
    /\ UNCHANGED <<argv, cmd, old_files, files, player_token, server_token, payload,
                   bundle, stdout>>

\* the else branch every function shares: print('ERROR:', response.text)
print_error ==
    /\ stdout' = Append(stdout, print("ERROR: " \o response.text))
    /\ Return

(***************************************************************************)
(* adduser()                                                               *)
(***************************************************************************)
\* player_token = ''.join(random.choice(string.ascii_letters) for i in range(4))
adduser_player_token ==
    /\ pc = "adduser"
    /\ \E draws \in DrawRuns(Len(ascii_letters)) : player_token' = token(draws)
    /\ pc' = "adduser_server_token"
    /\ UNCHANGED <<argv, cmd, old_files, files, server_token, payload, response, history,
                   bundle, requests, stdout, stderr, exitcode>>

\* server_token = ''.join(random.choice(string.ascii_letters) for i in range(4))
adduser_server_token ==
    /\ pc = "adduser_server_token"
    /\ \E draws \in DrawRuns(Len(ascii_letters)) : server_token' = token(draws)
    /\ pc' = "adduser_payload"
    /\ UNCHANGED <<argv, cmd, old_files, files, player_token, payload, response, history,
                   bundle, requests, stdout, stderr, exitcode>>

\* the payload.  input('Player name: ') writes the prompt, to standard error when
\* the run is on a terminal and to standard output otherwise, then returns the
\* line typed, or raises EOFError when standard input is at its end
adduser_payload ==
    /\ pc = "adduser_payload"
    /\ \E terminal \in BOOLEAN, typed \in Typed :
         LET prompted == IF terminal THEN Append(stderr, "Player name: ") ELSE stderr
         IN  /\ stdout' = IF terminal THEN stdout ELSE Append(stdout, "Player name: ")
             /\ IF typed = <<>>
                THEN /\ stderr' = Append(prompted, Traceback("EOFError"))
                     /\ exitcode' = 1
                     /\ pc' = "exit"
                     /\ UNCHANGED payload
                ELSE /\ payload' = [token |-> player_token, server_token |-> server_token,
                                    name |-> typed[1], score |-> 0,
                                    titles |-> <<>>, loot |-> <<>>]
                     /\ stderr' = prompted
                     /\ pc' = "adduser_post"
                     /\ UNCHANGED exitcode
    /\ UNCHANGED <<argv, cmd, old_files, files, player_token, server_token, response,
                   history, bundle, requests>>

adduser_post ==
    /\ pc = "adduser_post"
    /\ send("POST", "/user", HEADERS, <<payload>>, "adduser_response")

\* the 200 branch without the test for errors
adduser_ok_unchecked ==
    /\ stdout' = stdout \o <<print("Player token: " \o payload.token),
                             print("Server token: " \o payload.server_token)>>
    /\ Return

\* the 200 branch: data = response.json(), then errors or the two tokens
adduser_ok ==
    LET data == json(response)
        found == in("errors", data.value)
        errors == getitem(data.value, "errors")
    IN  IF data.exc # "" THEN Uncaught(data.exc) /\ UNCHANGED stdout
        ELSE IF found.exc # "" THEN Uncaught(found.exc) /\ UNCHANGED stdout
        ELSE IF found.value.v
             THEN IF errors.exc # "" THEN Uncaught(errors.exc) /\ UNCHANGED stdout
                  ELSE /\ stdout' = Append(stdout, print("ERROR: " \o str(errors.value)))
                       /\ Return
             ELSE /\ stdout' = stdout \o <<print("Player token: " \o payload.token),
                                           print("Server token: " \o payload.server_token)>>
                  /\ Return

adduser_response ==
    /\ pc = "adduser_response"
    /\ IF response.status_code = 200 THEN adduser_ok ELSE print_error
    /\ UNCHANGED <<argv, cmd, old_files, files, player_token, server_token, payload,
                   response, history, bundle, requests>>

(***************************************************************************)
(* listusers()                                                             *)
(***************************************************************************)
listusers_get ==
    /\ pc = "listusers"
    /\ send("GET", "/users", HEADERS, <<>>, "listusers_response")

\* for player in players: print(player), in the reverse order
print_each_reversed(players) ==
    [i \in 1..Len(players) |-> print(str(players[Len(players) + 1 - i]))]

\* for player in players: print(player)
print_each(players) == [i \in 1..Len(players) |-> print(str(players[i]))]

\* the 200 branch: data = response.json(), then one print per item
listusers_ok ==
    LET data == json(response)
        players == iter(data.value)
    IN  IF data.exc # "" THEN Uncaught(data.exc) /\ UNCHANGED stdout
        ELSE IF players.exc # "" THEN Uncaught(players.exc) /\ UNCHANGED stdout
        ELSE /\ stdout' = stdout \o print_each(players.value.v)
             /\ Return

listusers_response ==
    /\ pc = "listusers_response"
    /\ IF response.status_code = 200 THEN listusers_ok ELSE print_error
    /\ UNCHANGED <<argv, cmd, old_files, files, player_token, server_token, payload,
                   response, history, bundle, requests>>

(***************************************************************************)
(* start(), pause(), unpause(), stop()                                     *)
(***************************************************************************)
\* the response branch the four functions share, each with its own phrase
game_response(phrase) ==
    /\ IF response.status_code = 200
       THEN stdout' = Append(stdout, print(phrase)) /\ Return
       ELSE print_error
    /\ UNCHANGED <<argv, cmd, old_files, files, player_token, server_token, payload,
                   response, history, bundle, requests>>

start_post ==
    /\ pc = "start"
    /\ send("POST", "/game/start", HEADERS, <<>>, "start_response")

start_response ==
    /\ pc = "start_response"
    /\ game_response("Game started!")

pause_post ==
    /\ pc = "pause"
    /\ send("POST", "/game/pause", HEADERS, <<>>, "pause_response")

pause_response ==
    /\ pc = "pause_response"
    /\ game_response("Game paused!")

unpause_post ==
    /\ pc = "unpause"
    /\ send("POST", "/game/unpause", HEADERS, <<>>, "unpause_response")

unpause_response ==
    /\ pc = "unpause_response"
    /\ game_response("Game unpaused!")

stop_post ==
    /\ pc = "stop"
    /\ send("POST", "/game/stop", HEADERS, <<>>, "stop_response")

stop_response ==
    /\ pc = "stop_response"
    /\ game_response("Game ended!")

(***************************************************************************)
(* cert()                                                                  *)
(***************************************************************************)
cert_post ==
    /\ pc = "cert"
    /\ send("POST", "/cert", NoHeaders, <<>>, "cert_response")

\* private_key = data['private']; public_key = data['public'];
\* certificate = data['cert']: the first lookup that fails raises
read_bundle(data) ==
    LET private_key == getitem(data, "private")
        public_key == getitem(data, "public")
        certificate == getitem(data, "cert")
    IN  IF private_key.exc # "" THEN Raises(private_key.exc)
        ELSE IF public_key.exc # "" THEN Raises(public_key.exc)
        ELSE IF certificate.exc # "" THEN Raises(certificate.exc)
        ELSE Ok(JList(<<private_key.value, public_key.value, certificate.value>>))

\* the 200 branch up to the first open(): decode the body and read the three fields
cert_ok ==
    LET data == json(response)
        fields == read_bundle(data.value)
    IN  IF data.exc # "" THEN Uncaught(data.exc) /\ UNCHANGED bundle
        ELSE IF fields.exc # "" THEN Uncaught(fields.exc) /\ UNCHANGED bundle
        ELSE /\ bundle' = fields.value.v
             /\ pc' = "cert_key"
             /\ UNCHANGED <<stderr, exitcode>>

cert_response ==
    /\ pc = "cert_response"
    /\ IF response.status_code = 200
       THEN cert_ok /\ UNCHANGED stdout
       ELSE print_error /\ UNCHANGED bundle
    /\ UNCHANGED <<argv, cmd, old_files, files, player_token, server_token, payload,
                   response, history, requests>>

\* the file after open(path, 'a') and a write of text that reached the disk
appended(file, text) == File(file.content \o text)

\* the file after open(path, 'w') and a write of text that reached the disk
written(file, text) == File(text)

\* a failed write undone by putting the directory back as the run found it
failed_write_restored(path, reached) == old_files

\* the directory after a write into path failed with only part of the text on disk
failed_write(path, reached) == [files EXCEPT ![path] = File(reached)]

\* with open(parent_dir(filename), 'w', encoding='utf-8') as f:
\*     f.write(value); print('Wrote <filename>')
\* for the i-th field.  open() creates or truncates the file; the text is buffered
\* and reaches the disk during write() or when the with block closes the file,
\* which is after the print.
write_file(i, filename, next) ==
    LET path == parent_dir(filename)
        value == bundle[i]
    IN  /\ \/ \* open() raises: the file is not touched
              /\ Uncaught("OSError")
              /\ UNCHANGED <<files, stdout>>
           \/ \* f.write() of something that is no str raises, the file stays empty
              /\ value.t # "str"
              /\ files' = [files EXCEPT ![path] = File("")]
              /\ Uncaught("TypeError")
              /\ UNCHANGED stdout
           \/ \* the text is written and the file closed
              /\ value.t = "str"
              /\ files' = [files EXCEPT ![path] = written(files[path], value.v)]
              /\ stdout' = Append(stdout, print("Wrote " \o filename))
              /\ IF next = "exit" THEN Return
                 ELSE pc' = next /\ UNCHANGED <<stderr, exitcode>>
           \/ \* f.write() raises while flushing
              /\ value.t = "str"
              /\ \E reached \in Partial(value.v) : files' = failed_write(path, reached)
              /\ Uncaught("OSError")
              /\ UNCHANGED stdout
           \/ \* the flush at the end of the with block raises, after the print
              /\ value.t = "str"
              /\ \E reached \in Partial(value.v) : files' = failed_write(path, reached)
              /\ stdout' = Append(stdout, print("Wrote " \o filename))
              /\ Uncaught("OSError")
        /\ UNCHANGED <<argv, cmd, old_files, player_token, server_token, payload, response,
                       history, bundle, requests>>

cert_write_key ==
    /\ pc = "cert_key"
    /\ write_file(1, "server.key", "cert_pub")

cert_write_pub ==
    /\ pc = "cert_pub"
    /\ write_file(2, "server.pub", "cert_crt")

cert_write_crt ==
    /\ pc = "cert_crt"
    /\ write_file(3, "server.crt", "exit")

(***************************************************************************)
(* The run.                                                                *)
(***************************************************************************)
Next ==
    \/ main_parse
    \/ main_dispatch
    \/ adduser_player_token
    \/ adduser_server_token
    \/ adduser_payload
    \/ adduser_post
    \/ adduser_response
    \/ listusers_get
    \/ listusers_response
    \/ cert_post
    \/ cert_response
    \/ cert_write_key
    \/ cert_write_pub
    \/ cert_write_crt
    \/ start_post
    \/ start_response
    \/ pause_post
    \/ pause_response
    \/ unpause_post
    \/ unpause_response
    \/ stop_post
    \/ stop_response

Spec == Init /\ [][Next]_vars

(***************************************************************************)
(* The properties of the specification, checked against the model.         *)
(***************************************************************************)
\* the wire contract of section 6: command -> method, path, auth header
WireContract ==
    [adduser |-> [method |-> "POST", path |-> "/user", auth |-> TRUE],
     listusers |-> [method |-> "GET", path |-> "/users", auth |-> TRUE],
     cert |-> [method |-> "POST", path |-> "/cert", auth |-> FALSE],
     start |-> [method |-> "POST", path |-> "/game/start", auth |-> TRUE],
     pause |-> [method |-> "POST", path |-> "/game/pause", auth |-> TRUE],
     unpause |-> [method |-> "POST", path |-> "/game/unpause", auth |-> TRUE],
     stop |-> [method |-> "POST", path |-> "/game/stop", auth |-> TRUE]]

\* whether a request follows the contract's line for command c
Follows(request, c) ==
    /\ request.method = WireContract[c].method
    /\ request.url = "https://localhost:3001" \o WireContract[c].path
    /\ ("Authorization" \in DOMAIN request.headers) = WireContract[c].auth
    /\ WireContract[c].auth => request.headers["Authorization"] = "dungeon-master-key"

\* adduser's prompt, where the stream (standard output or standard error) starts
\* with it; the prompt is no output of the command's result
Prompt(stream) ==
    IF cmd = "adduser" /\ Len(stream) > 0 /\ stream[1] = "Player name: "
    THEN <<"Player name: ">> ELSE <<>>

\* the responses the server has given to the call, in order: the redirects the
\* client followed, then the response the function got
Answers == history \o (IF response.status_code = 0 THEN <<>> ELSE <<response>>)

\* the response is a 200 whose decoded body is an object with an errors field
HasErrors ==
    /\ response.status_code = 200
    /\ response.valid
    /\ response.value.t = "dict"
    /\ "errors" \in Keys(response.value)

\* C1: a run with a recognized command sends exactly one request, the one of the
\* wire contract (method, path, Authorization header or none), and never a second
\* one, whatever the response.
C1_OneRequestPerContract ==
    /\ Len(requests) <= 1
    /\ \A i \in 1..Len(requests) : cmd \in DOMAIN WireContract /\ Follows(requests[i], cmd)
    /\ (pc = "exit" /\ cmd \in DOMAIN WireContract) => Len(requests) = 1

\* whether the i-th word of the command line is a positional argument: the
\* parser reads no option in it (it comes after a '--', does not start with
\* '-', is '-', looks like a negative number or holds a space and no help
\* option), and it is not the '--' that ends the options
IsPositional(i) == ~is_option(argv, i) /\ ~is_mark(argv, i)

\* the place of the positional argument: the first positional word
IsFirstPositional(i) ==
    /\ i \in 1..Len(argv)
    /\ IsPositional(i)
    /\ \A j \in 1..(i - 1) : ~IsPositional(j)

\* the command line's positional argument is none of the command names
Unrecognized ==
    \E i \in 1..Len(argv) :
        /\ IsFirstPositional(i)
        /\ argv[i] \notin {"adduser", "listusers", "cert", "start", "pause", "unpause", "stop"}

\* a text made of letters h only, one at least
OnlyH(text) ==
    /\ Len(text) > 0
    /\ \A k \in 1..Len(text) : SubSeq(text, k, k) = "h"

\* the i-th word is the help option with no value, or -h with a value made of
\* further letters h only (-h, --help, --he, -hh, -h=h)
PlainHelp(i) ==
    /\ is_option(argv, i)
    /\ \/ argv[i] = "-h"
       \/ SubSeq(argv[i], 1, 2) = "-h" /\ OnlyH(SubSeq(argv[i], 3, Len(argv[i])))
       \/ /\ Len(argv[i]) > 3
          /\ SubSeq(argv[i], 1, 3) = "-h="
          /\ OnlyH(SubSeq(argv[i], 4, Len(argv[i])))
       \/ Len(argv[i]) \in 3..6 /\ argv[i] = SubSeq("--help", 1, Len(argv[i]))

\* the i-th word is the help option in any form, with or without a value
AnyHelp(i) ==
    /\ is_option(argv, i)
    /\ \/ SubSeq(argv[i], 1, 2) = "-h"
       \/ LET eq == find_equals(argv[i])
              name == IF eq > 0 THEN SubSeq(argv[i], 1, eq - 1) ELSE argv[i]
          IN  Len(name) \in 2..6 /\ name = SubSeq("--help", 1, Len(name))

\* the first help option that stands before the positional argument has no
\* value that the parser rejects
HelpFirst ==
    \E i \in 1..Len(argv) :
        /\ IsFirstPositional(i)
        /\ \E j \in 1..(i - 1) :
               /\ PlainHelp(j)
               /\ \A k \in 1..(j - 1) : ~AnyHelp(k)

\* C2 as stated: when the positional argument is not a command name, the run
\* never reaches the dispatch nor any function, sends no request, and ends with
\* a non-zero exit status.
C2_UnrecognizedRejected ==
    Unrecognized =>
        /\ pc \in {"parse", "exit"}
        /\ cmd = ""
        /\ requests = <<>>
        /\ pc = "exit" => exitcode # 0

\* C2, amended: when the positional argument is not a command name, the run
\* never reaches the dispatch nor any function and sends no request; it ends in
\* the parser: with status 2, a usage error on standard error and nothing on
\* standard output, unless the first help option before the positional argument
\* has no value the parser rejects (-h, --help, an abbreviation of --help, -hh),
\* and then with status 0, the help on standard output and nothing on standard
\* error.
C2_UnrecognizedNeverDispatched ==
    Unrecognized =>
        /\ pc \in {"parse", "exit"}
        /\ cmd = ""
        /\ requests = <<>>
        /\ (pc = "exit" /\ ~HelpFirst) =>
               (exitcode = 2 /\ Len(stderr) = 1 /\ stdout = <<>>)
        /\ (pc = "exit" /\ HelpFirst) =>
               (exitcode = 0 /\ Len(stdout) = 1 /\ stderr = <<>>)

C2_Witness ==
    /\ pc = "exit"
    /\ argv = <<"--", "add-user">>
    /\ exitcode = 2
    /\ requests = <<>>
    /\ stdout = <<>>

\* C3: for every response of the server with a status other than 200, standard
\* output never holds anything of the command but, at the end, the one line
\* ERROR: <raw body of that response>.
C3_FailurePrintsBody ==
    \A i \in 1..Len(Answers) :
        Answers[i].status_code # 200 =>
            /\ pc # "exit" => stdout = Prompt(stdout)
            /\ pc = "exit" =>
                   stdout = Prompt(stdout) \o <<"ERROR: " \o Answers[i].text \o "\n">>

\* C4: in adduser, a 200 response whose decoded body has an errors field ends with
\* the line ERROR: <that field's value> and without the token lines; the token
\* lines are printed only when the status is 200 and no errors field is present.
C4_ErrorsFieldBeforeTokens ==
    cmd = "adduser" =>
        /\ (HasErrors /\ pc = "exit") =>
               /\ stdout = Prompt(stdout)
                              \o <<"ERROR: " \o str(Get(response.value, "errors")) \o "\n">>
               /\ stderr = Prompt(stderr)
               /\ Len(Prompt(stdout)) + Len(Prompt(stderr)) = 1
        /\ (\E i \in 1..Len(stdout) :
               stdout[i] \in {"Player token: " \o payload.token \o "\n",
                              "Server token: " \o payload.server_token \o "\n"})
               => (response.status_code = 200 /\ ~HasErrors)

C4_Witness ==
    /\ pc = "exit"
    /\ cmd = "adduser"
    /\ HasErrors
    /\ stdout = <<"Player name: ", "ERROR: name taken\n">>

\* the path of the file cert() writes the i-th field to
TargetPath(i) == "../" \o <<"server.key", "server.pub", "server.crt">>[i]

\* the confirmation cert() prints for the i-th file
Confirmation(i) == "Wrote " \o <<"server.key", "server.pub", "server.crt">>[i] \o "\n"

\* the text of the i-th field (private, public, cert) of the response's body
FieldText(i) == Get(response.value, <<"private", "public", "cert">>[i]).v

\* cert() got a 200 whose decoded body carries the three fields, each a text
CarriesBundle ==
    /\ cmd = "cert"
    /\ response.status_code = 200
    /\ response.valid
    /\ response.value.t = "dict"
    /\ \A field \in {"private", "public", "cert"} :
           field \in Keys(response.value) /\ Get(response.value, field).t = "str"

\* C5: when cert() gets a 200 carrying the three fields and no file operation
\* fails, the run ends normally and each of ../server.key, ../server.pub,
\* ../server.crt exists and holds exactly the text of the private, public and cert
\* field, whatever it held before, and standard output holds the three
\* confirmations, one per file, in that order.  (The failing runs are C9's.)
C5_ThreeFilesHoldTheFields ==
    (pc = "exit" /\ CarriesBundle /\ stderr = <<>>) =>
        /\ exitcode = 0
        /\ DOMAIN files = {TargetPath(i) : i \in 1..3}
        /\ \A i \in 1..3 : files[TargetPath(i)] = [exists |-> TRUE, content |-> FieldText(i)]
        /\ stdout = [i \in 1..3 |-> Confirmation(i)]

C5_Witness ==
    /\ pc = "exit"
    /\ exitcode = 0
    /\ cmd = "cert"
    /\ response.status_code = 200
    /\ history = <<>>
    /\ \A i \in 1..3 : old_files[TargetPath(i)] = [exists |-> TRUE, content |-> "OLD"]
    /\ files["../server.key"].content = "KEY"
    /\ files["../server.pub"].content = "PUB"
    /\ files["../server.crt"].content = "CRT"
    /\ Len(stdout) = 3

\* the 52 letters
Letters ==
    {SubSeq("abcdefghijklmnopqrstuvwxyz", i, i) : i \in 1..26}
        \cup {SubSeq("ABCDEFGHIJKLMNOPQRSTUVWXYZ", i, i) : i \in 1..26}

\* a text of exactly 4 characters, each a letter
IsToken(text) ==
    /\ Len(text) = 4
    /\ \A i \in 1..4 : SubSeq(text, i, i) \in Letters

\* the letter at place n of the alphabet, lower case first
Letter(n) == SubSeq("abcdefghijklmnopqrstuvwxyzABCDEFGHIJKLMNOPQRSTUVWXYZ", n, n)

\* the tokens the enumerated runs of the generator spell
SpelledTokens ==
    {Letter(Draw(k, 1, 52)) \o Letter(Draw(k, 2, 52))
        \o Letter(Draw(k, 3, 52)) \o Letter(Draw(k, 4, 52)) : k \in 1..DrawBound}

\* C6: the player token and the server token of adduser's payload, and of the body
\* of the request sent, are 4 characters long and made of the 52 letters only; and
\* the two are generated independently: every token is a possible player token,
\* and whatever the player token is, every token (the same one included) is a
\* possible server token, and the pair generated is the pair sent.
C6_TokensFourLetters ==
    /\ Cardinality(Letters) = 52
    /\ (cmd = "adduser" /\ pc \in {"adduser_post", "adduser_response"}) =>
           IsToken(payload.token) /\ IsToken(payload.server_token)
    /\ (cmd = "adduser" /\ requests # <<>>) => Len(requests[1].json) = 1
    /\ \A i \in 1..Len(requests) :
           Len(requests[i].json) = 1 =>
               /\ IsToken(requests[i].json[1].token)
               /\ IsToken(requests[i].json[1].server_token)
               /\ requests[i].json[1] = payload
    /\ pc = "adduser" =>
           \A text \in SpelledTokens : ENABLED (adduser_player_token /\ player_token' = text)
    /\ pc = "adduser_server_token" =>
           \A text \in SpelledTokens : ENABLED (adduser_server_token /\ server_token' = text)
    /\ pc = "adduser_payload" =>
           ENABLED (adduser_payload /\ payload'.token = player_token
                                    /\ payload'.server_token = server_token)

C6_Witness ==
    /\ pc = "adduser_response"
    /\ Len(requests) = 1
    /\ requests[1].json[1].token = "ZZZZ"
    /\ requests[1].json[1].server_token = "ZZZZ"

\* listusers() got a 200 whose body decodes to a list, and has returned
ListedPlayers ==
    /\ pc = "exit"
    /\ cmd = "listusers"
    /\ response.status_code = 200
    /\ response.valid
    /\ response.value.t = "list"

\* what Python prints for each of the elements the model's server returns
Printed(element) ==
    CASE element = [t |-> "dict", v |-> << <<"name", [t |-> "str", v |-> "Ada"]>>,
                                           <<"score", [t |-> "int", v |-> 5]>> >>]
             -> "{'name': 'Ada', 'score': 5}"
      [] element = [t |-> "str", v |-> "Bob"] -> "Bob"
      [] element = [t |-> "NoneType", v |-> <<>>] -> "None"
      [] element = [t |-> "bool", v |-> TRUE] -> "True"
      [] element = [t |-> "int", v |-> 7] -> "7"
      [] element = [t |-> "dict", v |-> << <<"n", [t |-> "str", v |-> "O'Neil"]>> >>]
             -> "{'n': \"O'Neil\"}"
      [] element = [t |-> "list", v |-> <<[t |-> "str", v |-> "a\nb"]>>]
             -> "['a\\nb']"
      [] element = [t |-> "dict", v |-> << <<"k", [t |-> "str", v |-> "a\\b"]>> >>]
             -> "{'k': 'a\\\\b'}"
      [] element = [t |-> "list", v |-> <<[t |-> "str", v |-> "it's \"ok\""]>>]
             -> "['it\\'s \"ok\"']"

\* the request that brought the response is the last one sent: one request for
\* each redirect followed and one for the response
NoFurtherRequest == Len(requests) = Len(history) + 1

\* C7 as stated: after a 200 whose body decodes to a list of n elements, standard
\* output holds n lines, the i-th being the i-th element as the server returned it,
\* and no further request was made.
C7_PrintsElementsVerbatim ==
    ListedPlayers =>
        /\ stdout = [i \in 1..Len(response.value.v) |-> dumps(response.value.v[i]) \o "\n"]
        /\ NoFurtherRequest

\* C7, amended: after a 200 whose body decodes to a list of n elements, standard
\* output holds the text of n print calls in the list's order, the i-th being
\* Python's str() of the i-th decoded element (a string bare, null as None, true
\* as True, an object or a list in Python's repr form), and no further request
\* was made.
C7_PrintsElementsAsPythonText ==
    ListedPlayers =>
        /\ Len(stdout) = Len(response.value.v)
        /\ \A i \in 1..Len(stdout) :
               /\ stdout[i] = str(response.value.v[i]) \o "\n"
               /\ response.value.v[i] \in Players =>
                      stdout[i] = Printed(response.value.v[i]) \o "\n"
        /\ NoFurtherRequest

C7_Witness ==
    /\ ListedPlayers
    /\ response.text = "[{\"name\":\"Ada\",\"score\":5},{\"n\":\"O'Neil\"}]"
    /\ stdout = <<"{'name': 'Ada', 'score': 5}\n", "{'n': \"O'Neil\"}\n">>

\* the exchange failed: requests raised and no response came back
TransportFailed == response.status_code = 0 /\ Len(requests) > 0

\* a file operation of cert() raised
WriteFailed ==
    /\ cmd = "cert"
    /\ \E i \in 1..Len(stderr) : stderr[i] = "Traceback (most recent call last): OSError"

\* C8: each error of the taxonomy ends the run with a message and nothing more:
\* (a) a failed exchange ends the run with the traceback and no output of the
\* command; (b) a response with a status other than 200 and (c) an errors field
\* in adduser's 200 are followed by the ERROR line alone and the end of the run,
\* and by no request; (d) a failed file operation of cert() ends the run with
\* the traceback, after the confirmations printed so far.
C8_ErrorsEndTheRun ==
    /\ TransportFailed =>
           /\ pc = "exit"
           /\ stdout = Prompt(stdout)
           /\ \E exc \in {"ConnectionError", "ChunkedEncodingError"} :
                  stderr = Prompt(stderr) \o <<"Traceback (most recent call last): " \o exc>>
    /\ \A i \in 1..Len(Answers) :
           Answers[i].status_code # 200 =>
               /\ pc \in {cmd \o "_response", "exit"}
               /\ Len(requests) = i
               /\ stdout = Prompt(stdout)
                              \o (IF pc = "exit"
                                  THEN <<"ERROR: " \o Answers[i].text \o "\n">> ELSE <<>>)
    /\ (cmd = "adduser" /\ HasErrors) =>
           /\ pc \in {"adduser_response", "exit"}
           /\ NoFurtherRequest
           /\ stdout = Prompt(stdout)
                          \o (IF pc = "exit"
                              THEN <<"ERROR: " \o str(Get(response.value, "errors")) \o "\n">>
                              ELSE <<>>)
    /\ WriteFailed =>
           /\ pc = "exit"
           /\ NoFurtherRequest
           /\ Len(stderr) = 1
           /\ \E n \in 0..3 : stdout = [i \in 1..n |-> Confirmation(i)]

\* the step of cert() that writes the k-th file
WritingFile(k) == pc = <<"cert_key", "cert_pub", "cert_crt">>[k]

\* the i-th file holds the new text
HoldsNew(f, i) == f[TargetPath(i)] = [exists |-> TRUE, content |-> FieldText(i)]

\* C9: cert() writes server.key, server.pub, server.crt in this order; when it
\* comes to the k-th file, the files before it hold their new content and their
\* confirmations are printed, and the k-th and later files are as the run found
\* them; a step that fails at the k-th file ends the run leaving the files before
\* it with the new content and the files after it as the run found them.
C9_NoRollback ==
    /\ [](\A k \in 1..3 : WritingFile(k) =>
            /\ \A j \in 1..(k - 1) : HoldsNew(files, j) /\ stdout[j] = Confirmation(j)
            /\ \A j \in k..3 : files[TargetPath(j)] = old_files[TargetPath(j)])
    /\ [][\A k \in 1..3 : (WritingFile(k) /\ exitcode' = 1) =>
            /\ pc' = "exit"
            /\ \A j \in 1..(k - 1) : HoldsNew(files', j) /\ stdout'[j] = Confirmation(j)
            /\ \A j \in (k + 1)..3 : files'[TargetPath(j)] = old_files[TargetPath(j)]]_vars

C9_Witness ==
    /\ pc = "exit"
    /\ exitcode = 1
    /\ cmd = "cert"
    /\ files["../server.key"] = [exists |-> TRUE, content |-> "KEY"]
    /\ files["../server.pub"] = [exists |-> TRUE, content |-> "P"]
    /\ files["../server.crt"] = [exists |-> TRUE, content |-> "OLD"]
    /\ stdout = <<"Wrote server.key\n">>

\* the decoded body lacks one of the fields private, public, cert
LacksField ==
    /\ response.valid
    /\ \/ response.value.t # "dict"
       \/ \E field \in {"private", "public", "cert"} : field \notin Keys(response.value)

\* C10: in cert(), when a response of the server has a status other than 200, or
\* the response is a 200 with a decoded body that lacks one of the fields
\* private, public, cert, no file is created, truncated or rewritten: the
\* directory stays as the run found it.
C10_FilesUntouched ==
    (/\ cmd = "cert"
     /\ \/ \E i \in 1..Len(Answers) : Answers[i].status_code # 200
        \/ response.status_code = 200 /\ LacksField)
        => files = old_files

=============================================================================
